---- MODULE Spec2Model ----
(***************************************************************************)
(* The codon2x3 example of npblink: the observation provider npdata.py     *)
(* (get_data and its four hand-written data levels) and the two model      *)
(* modules npmodel.py and npmodelb.py (rate matrix, tolerance map, tree,   *)
(* branch lengths).                                                        *)
(*                                                                         *)
(* State: the binding of the name data_level in the global namespace of    *)
(* the module npdata (get_data reads that name, not its parameter), the    *)
(* argument of the latest get_data call, the value of data_level that call *)
(* dispatched on, its outcome (exception or returned pair), and the value  *)
(* each model getter returned last, per model module.                      *)
(*                                                                         *)
(* An optional value is a sequence of length 0 (None / unbound / nothing   *)
(* returned) or 1.  Python floats are modelled as exact fractions in       *)
(* lowest terms: every float literal of the sources (0, 0.5, 1, 2.0) and   *)
(* every product the sources compute is a dyadic rational, so the float    *)
(* arithmetic is exact.                                                    *)
(***************************************************************************)
EXTENDS Integers, Sequences, FiniteSets, TLC

VARIABLES data_level, level, selected, raised, primary_data, tol_data,
          Q_primary, primary_to_tol, T_and_root, edge_to_blen

vars == <<data_level, level, selected, raised, primary_data, tol_data,
          Q_primary, primary_to_tol, T_and_root, edge_to_blen>>

(* Largest integer passed as a level or bound to the global data_level. *)
MaxLevelArg == 4

LevelArgs == (0 - 1)..MaxLevelArg

None == <<>>

Some(v) == <<v>>

(* The two model modules of the example. *)
Modules == {"npmodel", "npmodelb"}

----------------------------------------------------------------------------
(* numpy and float helpers *)

(* np.array(list, dtype=bool): 0-based vector, nonzero -> True. *)
np_array_bool(s) == [i \in 0..(Len(s) - 1) |-> s[i + 1] # 0]

RECURSIVE GCD(_, _)
GCD(a, b) == IF b = 0 THEN a ELSE GCD(b, a % b)

(* The float n/d, in lowest terms (d > 0, n >= 0). *)
Float(n, d) == LET g == IF n = 0 THEN d ELSE GCD(n, d)
               IN  [num |-> n \div g, den |-> d \div g]

FloatMul(x, y) == Float(x.num * y.num, x.den * y.den)

(* dtype=float applied to an integer literal. *)
float(n) == Float(n, 1)

(* np.array(rows, dtype=float) over rows of floats: 0-based matrix. *)
np_array_float(rows) ==
    [i \in 0..(Len(rows) - 1) |->
        [j \in 0..(Len(rows[i + 1]) - 1) |-> rows[i + 1][j + 1]]]

(* np.array(list, dtype=int): 0-based vector of integers. *)
np_array_int(s) == [i \in 0..(Len(s) - 1) |-> s[i + 1]]

(* nx.DiGraph().add_edges_from(edges): the endpoints become nodes. *)
DiGraph_add_edges_from(edges) ==
    [nodes |-> {edges[i][1] : i \in 1..Len(edges)}
                 \cup {edges[i][2] : i \in 1..Len(edges)},
     edges |-> {edges[i] : i \in 1..Len(edges)}]

----------------------------------------------------------------------------
(* npdata.py: the literals of the four branches of get_data *)

primary_data_0 ==
    [N0 |-> np_array_bool(<<1, 1, 1, 1, 1, 1>>),
     N1 |-> np_array_bool(<<1, 1, 1, 1, 1, 1>>),
     N2 |-> np_array_bool(<<1, 1, 1, 1, 1, 1>>),
     N3 |-> np_array_bool(<<1, 1, 1, 1, 1, 1>>),
     N4 |-> np_array_bool(<<1, 1, 1, 1, 1, 1>>),
     N5 |-> np_array_bool(<<1, 1, 1, 1, 1, 1>>)]

tol_data_0 ==
    (   0 :> [N0 |-> np_array_bool(<<1, 1>>),
           N1 |-> np_array_bool(<<1, 1>>),
           N2 |-> np_array_bool(<<1, 1>>),
           N3 |-> np_array_bool(<<1, 1>>),
           N4 |-> np_array_bool(<<1, 1>>),
           N5 |-> np_array_bool(<<1, 1>>)]
     @@ 1 :> [N0 |-> np_array_bool(<<1, 1>>),
           N1 |-> np_array_bool(<<1, 1>>),
           N2 |-> np_array_bool(<<1, 1>>),
           N3 |-> np_array_bool(<<1, 1>>),
           N4 |-> np_array_bool(<<1, 1>>),
           N5 |-> np_array_bool(<<1, 1>>)]
     @@ 2 :> [N0 |-> np_array_bool(<<1, 1>>),
           N1 |-> np_array_bool(<<1, 1>>),
           N2 |-> np_array_bool(<<1, 1>>),
           N3 |-> np_array_bool(<<1, 1>>),
           N4 |-> np_array_bool(<<1, 1>>),
           N5 |-> np_array_bool(<<1, 1>>)])

(* primary_data_1 with leaf N3 observed in state 2 instead of state 4. *)
primary_data_1_wrong_leaf ==
    [N0 |-> np_array_bool(<<1, 0, 0, 0, 0, 0>>),
     N1 |-> np_array_bool(<<1, 1, 1, 1, 1, 1>>),
     N2 |-> np_array_bool(<<1, 1, 1, 1, 1, 1>>),
     N3 |-> np_array_bool(<<0, 0, 1, 0, 0, 0>>),
     N4 |-> np_array_bool(<<0, 0, 0, 0, 0, 1>>),
     N5 |-> np_array_bool(<<0, 1, 0, 0, 0, 0>>)]

primary_data_1 ==
    [N0 |-> np_array_bool(<<1, 0, 0, 0, 0, 0>>),
     N1 |-> np_array_bool(<<1, 1, 1, 1, 1, 1>>),
     N2 |-> np_array_bool(<<1, 1, 1, 1, 1, 1>>),
     N3 |-> np_array_bool(<<0, 0, 0, 0, 1, 0>>),
     N4 |-> np_array_bool(<<0, 0, 0, 0, 0, 1>>),
     N5 |-> np_array_bool(<<0, 1, 0, 0, 0, 0>>)]

tol_data_1 ==
    (   0 :> [N0 |-> np_array_bool(<<0, 1>>),
           N1 |-> np_array_bool(<<1, 1>>),
           N2 |-> np_array_bool(<<1, 1>>),
           N3 |-> np_array_bool(<<1, 1>>),
           N4 |-> np_array_bool(<<1, 1>>),
           N5 |-> np_array_bool(<<0, 1>>)]
     @@ 1 :> [N0 |-> np_array_bool(<<1, 1>>),
           N1 |-> np_array_bool(<<1, 1>>),
           N2 |-> np_array_bool(<<1, 1>>),
           N3 |-> np_array_bool(<<1, 1>>),
           N4 |-> np_array_bool(<<1, 1>>),
           N5 |-> np_array_bool(<<1, 1>>)]
     @@ 2 :> [N0 |-> np_array_bool(<<1, 1>>),
           N1 |-> np_array_bool(<<1, 1>>),
           N2 |-> np_array_bool(<<1, 1>>),
           N3 |-> np_array_bool(<<0, 1>>),
           N4 |-> np_array_bool(<<0, 1>>),
           N5 |-> np_array_bool(<<1, 1>>)])

(* primary_data_2 with state 2 allowed again at N5. *)
primary_data_2_reallows ==
    [N0 |-> np_array_bool(<<1, 0, 0, 0, 0, 0>>),
     N1 |-> np_array_bool(<<1, 1, 1, 1, 1, 1>>),
     N2 |-> np_array_bool(<<1, 1, 1, 1, 1, 1>>),
     N3 |-> np_array_bool(<<0, 0, 0, 0, 1, 0>>),
     N4 |-> np_array_bool(<<0, 0, 0, 0, 0, 1>>),
     N5 |-> np_array_bool(<<0, 1, 1, 0, 0, 0>>)]

primary_data_2 ==
    [N0 |-> np_array_bool(<<1, 0, 0, 0, 0, 0>>),
     N1 |-> np_array_bool(<<1, 1, 1, 1, 1, 1>>),
     N2 |-> np_array_bool(<<1, 1, 1, 1, 1, 1>>),
     N3 |-> np_array_bool(<<0, 0, 0, 0, 1, 0>>),
     N4 |-> np_array_bool(<<0, 0, 0, 0, 0, 1>>),
     N5 |-> np_array_bool(<<0, 1, 0, 0, 0, 0>>)]

tol_data_2 ==
    (   0 :> [N0 |-> np_array_bool(<<0, 1>>),
           N1 |-> np_array_bool(<<1, 1>>),
           N2 |-> np_array_bool(<<1, 1>>),
           N3 |-> np_array_bool(<<1, 1>>),
           N4 |-> np_array_bool(<<1, 1>>),
           N5 |-> np_array_bool(<<0, 1>>)]
     @@ 1 :> [N0 |-> np_array_bool(<<1, 0>>),
           N1 |-> np_array_bool(<<1, 1>>),
           N2 |-> np_array_bool(<<1, 1>>),
           N3 |-> np_array_bool(<<1, 1>>),
           N4 |-> np_array_bool(<<1, 1>>),
           N5 |-> np_array_bool(<<1, 1>>)]
     @@ 2 :> [N0 |-> np_array_bool(<<0, 1>>),
           N1 |-> np_array_bool(<<1, 1>>),
           N2 |-> np_array_bool(<<1, 1>>),
           N3 |-> np_array_bool(<<0, 1>>),
           N4 |-> np_array_bool(<<0, 1>>),
           N5 |-> np_array_bool(<<1, 1>>)])

(* primary_data_3 with no state left at N4. *)
primary_data_3_empty ==
    [N0 |-> np_array_bool(<<1, 0, 0, 0, 0, 0>>),
     N1 |-> np_array_bool(<<1, 1, 1, 1, 1, 1>>),
     N2 |-> np_array_bool(<<1, 1, 1, 1, 1, 1>>),
     N3 |-> np_array_bool(<<0, 0, 0, 0, 1, 0>>),
     N4 |-> np_array_bool(<<0, 0, 0, 0, 0, 0>>),
     N5 |-> np_array_bool(<<0, 1, 0, 0, 0, 0>>)]

primary_data_3 ==
    [N0 |-> np_array_bool(<<1, 0, 0, 0, 0, 0>>),
     N1 |-> np_array_bool(<<1, 1, 1, 1, 1, 1>>),
     N2 |-> np_array_bool(<<1, 1, 1, 1, 1, 1>>),
     N3 |-> np_array_bool(<<0, 0, 0, 0, 1, 0>>),
     N4 |-> np_array_bool(<<0, 0, 0, 0, 0, 1>>),
     N5 |-> np_array_bool(<<0, 1, 0, 0, 0, 0>>)]

tol_data_3 ==
    (   0 :> [N0 |-> np_array_bool(<<0, 1>>),
           N1 |-> np_array_bool(<<1, 1>>),
           N2 |-> np_array_bool(<<1, 1>>),
           N3 |-> np_array_bool(<<0, 1>>),
           N4 |-> np_array_bool(<<0, 1>>),
           N5 |-> np_array_bool(<<0, 1>>)]
     @@ 1 :> [N0 |-> np_array_bool(<<1, 0>>),
           N1 |-> np_array_bool(<<1, 1>>),
           N2 |-> np_array_bool(<<1, 1>>),
           N3 |-> np_array_bool(<<0, 1>>),
           N4 |-> np_array_bool(<<0, 1>>),
           N5 |-> np_array_bool(<<0, 1>>)]
     @@ 2 :> [N0 |-> np_array_bool(<<0, 1>>),
           N1 |-> np_array_bool(<<1, 1>>),
           N2 |-> np_array_bool(<<1, 1>>),
           N3 |-> np_array_bool(<<0, 1>>),
           N4 |-> np_array_bool(<<0, 1>>),
           N5 |-> np_array_bool(<<0, 1>>)])

(* The if/elif chain of get_data for a selector value dl: the pair the     *)
(* matching branch builds and returns, or the exception of the else.      *)
get_data_branches(dl) ==
    IF dl = 0 THEN
        [raised |-> "", primary_data |-> Some(primary_data_0),
         tol_data |-> Some(tol_data_0)]
    ELSE IF dl = 1 THEN
        [raised |-> "", primary_data |-> Some(primary_data_1),
         tol_data |-> Some(tol_data_1)]
    ELSE IF dl = 2 THEN
        [raised |-> "", primary_data |-> Some(primary_data_2),
         tol_data |-> Some(tol_data_2)]
    ELSE IF dl = 3 THEN
        [raised |-> "", primary_data |-> Some(primary_data_3),
         tol_data |-> Some(tol_data_3)]
    ELSE
        [raised |-> "Exception: invalid data level",
         primary_data |-> None, tol_data |-> None]

(* Evaluating the name data_level inside get_data: it is not a parameter   *)
(* or a local, so it is looked up in the module globals; unbound there, it *)
(* raises NameError before any branch runs.                                *)
get_data_result(globals_data_level) ==
    IF globals_data_level = None
    THEN [raised |-> "NameError", primary_data |-> None, tol_data |-> None]
    ELSE get_data_branches(globals_data_level[1])

----------------------------------------------------------------------------
(* npmodel.py *)

(* Q_primary_npmodel with the rate 0 -> 1 dropped and a rate on the *)
(* diagonal.                                                         *)
Q_primary_npmodel_asym ==
    np_array_float(<<
        <<float(0), float(0), float(1), float(0), float(0), float(0)>>,
        <<float(1), float(0), float(0), float(1), float(0), float(0)>>,
        <<float(1), float(0), float(1), float(1), float(1), float(0)>>,
        <<float(0), float(1), float(1), float(0), float(0), float(1)>>,
        <<float(0), float(0), float(1), float(0), float(0), float(1)>>,
        <<float(0), float(0), float(0), float(1), float(1), float(0)>> >>)

Q_primary_npmodel ==
    np_array_float(<<
        <<float(0), float(1), float(1), float(0), float(0), float(0)>>,
        <<float(1), float(0), float(0), float(1), float(0), float(0)>>,
        <<float(1), float(0), float(0), float(1), float(1), float(0)>>,
        <<float(0), float(1), float(1), float(0), float(0), float(1)>>,
        <<float(0), float(0), float(1), float(0), float(0), float(1)>>,
        <<float(0), float(0), float(0), float(1), float(1), float(0)>> >>)

(* primary_to_tol_npmodel with states 4 and 5 put into class 1. *)
primary_to_tol_npmodel_two_classes == np_array_int(<<0, 0, 1, 1, 1, 1>>)

primary_to_tol_npmodel == np_array_int(<<0, 0, 1, 1, 2, 2>>)

T_and_root_npmodel ==
    [T |-> DiGraph_add_edges_from(<<
            <<"N1", "N0">>,
            <<"N1", "N2">>,
            <<"N1", "N5">>,
            <<"N2", "N3">>,
            <<"N2", "N4">> >>),
     root |-> "N1"]

(* edge_to_blen_npmodel with the key of the first edge written backwards. *)
edge_to_blen_npmodel_reversed_key ==
    (   <<"N0", "N1">> :> Float(1, 2)
     @@ <<"N1", "N2">> :> Float(1, 2)
     @@ <<"N1", "N5">> :> Float(1, 2)
     @@ <<"N2", "N3">> :> Float(1, 2)
     @@ <<"N2", "N4">> :> Float(1, 2))

edge_to_blen_npmodel ==
    (   <<"N1", "N0">> :> Float(1, 2)
     @@ <<"N1", "N2">> :> Float(1, 2)
     @@ <<"N1", "N5">> :> Float(1, 2)
     @@ <<"N2", "N3">> :> Float(1, 2)
     @@ <<"N2", "N4">> :> Float(1, 2))

----------------------------------------------------------------------------
(* npmodelb.py *)

f == Float(2, 1)

s == Float(1, 2)

Q_primary_npmodelb ==
    np_array_float(<<
        <<float(0), f,        float(1), float(0), float(0), float(0)>>,
        <<s,        float(0), float(0), float(1), float(0), float(0)>>,
        <<s,        float(0), float(0), float(1), float(1), float(0)>>,
        <<float(0), f,        float(1), float(0), float(0), float(1)>>,
        <<float(0), float(0), float(1), float(0), float(0), float(0)>>,
        <<float(0), float(0), float(0), float(1), float(0), float(0)>> >>)

primary_to_tol_npmodelb == np_array_int(<<0, 0, 1, 1, 2, 2>>)

(* T_and_root_npmodelb with the edge N1 -> N2 written backwards. *)
T_and_root_npmodelb_reversed ==
    [T |-> DiGraph_add_edges_from(<<
            <<"N1", "N0">>,
            <<"N2", "N1">>,
            <<"N1", "N5">>,
            <<"N2", "N3">>,
            <<"N2", "N4">> >>),
     root |-> "N1"]

T_and_root_npmodelb ==
    [T |-> DiGraph_add_edges_from(<<
            <<"N1", "N0">>,
            <<"N1", "N2">>,
            <<"N1", "N5">>,
            <<"N2", "N3">>,
            <<"N2", "N4">> >>),
     root |-> "N1"]

blen == Float(1, 2)

edge_to_blen_npmodelb ==
    (   <<"N1", "N0">> :> float(0)
     @@ <<"N1", "N2">> :> float(0)
     @@ <<"N1", "N5">> :> blen
     @@ <<"N2", "N3">> :> FloatMul(Float(2, 1), blen)
     @@ <<"N2", "N4">> :> FloatMul(Float(1, 2), blen))

----------------------------------------------------------------------------
(* State machine *)

Init ==
    /\ data_level = None
    /\ level = None
    /\ selected = None
    /\ raised = ""
    /\ primary_data = None
    /\ tol_data = None
    /\ Q_primary = [m \in Modules |-> None]
    /\ primary_to_tol = [m \in Modules |-> None]
    /\ T_and_root = [m \in Modules |-> None]
    /\ edge_to_blen = [m \in Modules |-> None]

(* A client binds the name data_level in the globals of npdata (the only  *)
(* way the read in get_data can succeed).                                 *)
bind_data_level(v) ==
    /\ data_level' = Some(v)
    /\ UNCHANGED <<level, selected, raised, primary_data, tol_data,
                   Q_primary, primary_to_tol, T_and_root, edge_to_blen>>

(* npdata.get_data(lv). *)
get_data(lv) ==
    LET r == get_data_result(data_level)
    IN  /\ level' = Some(lv)
        /\ selected' = data_level
        /\ raised' = r.raised
        /\ primary_data' = r.primary_data
        /\ tol_data' = r.tol_data
        /\ UNCHANGED <<data_level,
                       Q_primary, primary_to_tol, T_and_root, edge_to_blen>>

get_Q_primary(m) ==
    /\ Q_primary' = [Q_primary EXCEPT ![m] =
            Some(IF m = "npmodel" THEN Q_primary_npmodel
                                  ELSE Q_primary_npmodelb)]
    /\ UNCHANGED <<data_level, level, selected, raised, primary_data, tol_data,
                   primary_to_tol, T_and_root, edge_to_blen>>

get_primary_to_tol(m) ==
    /\ primary_to_tol' = [primary_to_tol EXCEPT ![m] =
            Some(IF m = "npmodel" THEN primary_to_tol_npmodel
                                  ELSE primary_to_tol_npmodelb)]
    /\ UNCHANGED <<data_level, level, selected, raised, primary_data, tol_data,
                   Q_primary, T_and_root, edge_to_blen>>

get_T_and_root(m) ==
    /\ T_and_root' = [T_and_root EXCEPT ![m] =
            Some(IF m = "npmodel" THEN T_and_root_npmodel
                                  ELSE T_and_root_npmodelb)]
    /\ UNCHANGED <<data_level, level, selected, raised, primary_data, tol_data,
                   Q_primary, primary_to_tol, edge_to_blen>>

get_edge_to_blen(m) ==
    /\ edge_to_blen' = [edge_to_blen EXCEPT ![m] =
            Some(IF m = "npmodel" THEN edge_to_blen_npmodel
                                  ELSE edge_to_blen_npmodelb)]
    /\ UNCHANGED <<data_level, level, selected, raised, primary_data, tol_data,
                   Q_primary, primary_to_tol, T_and_root>>

Next ==
    \/ \E v \in LevelArgs : bind_data_level(v)
    \/ \E lv \in LevelArgs : get_data(lv)
    \/ \E m \in Modules : get_Q_primary(m)
    \/ \E m \in Modules : get_primary_to_tol(m)
    \/ \E m \in Modules : get_T_and_root(m)
    \/ \E m \in Modules : get_edge_to_blen(m)

Spec == Init /\ [][Next]_vars

----------------------------------------------------------------------------
(* Vocabulary of the properties *)

NodeNames == {"N0", "N1", "N2", "N3", "N4", "N5"}

LeafNames == {"N0", "N3", "N4", "N5"}

PrimaryStates == 0..5

BlinkStates == 0..1

TolClasses == 0..2

ValidLevels == 0..3

(* The latest get_data call returned a pair. *)
Returned == level # None /\ raised = "" /\ primary_data # None /\ tol_data # None

(* d2 allows nothing that d1 excludes. *)
PrimaryRestricts(d1, d2) ==
    \A n \in NodeNames : \A i \in PrimaryStates : ~d1[n][i] => ~d2[n][i]

TolRestricts(t1, t2) ==
    \A c \in TolClasses : \A n \in NodeNames : \A b \in BlinkStates :
        ~t1[c][n][b] => ~t2[c][n][b]

\* C1: the four datasets form a filtration: what the dataset of level L
\* excludes, the dataset of level L+1 excludes too (primary states and
\* tolerance states, every node, every class), and the dataset of level 0
\* allows every state everywhere.  The dataset of level L is the one the
\* branch for selector value L builds.
C1_Filtration ==
    (Returned /\ selected # None) =>
        LET L  == selected[1]
            pd == primary_data[1]
            td == tol_data[1]
        IN  /\ L = 0 =>
                /\ \A n \in NodeNames : \A i \in PrimaryStates : pd[n][i]
                /\ \A c \in TolClasses : \A n \in NodeNames :
                       \A b \in BlinkStates : td[c][n][b]
            /\ L \in 0..2 =>
                LET nxt == get_data_branches(L + 1)
                IN  /\ PrimaryRestricts(pd, nxt.primary_data[1])
                    /\ TolRestricts(td, nxt.tol_data[1])
            /\ L \in 1..3 =>
                LET prv == get_data_branches(L - 1)
                IN  /\ PrimaryRestricts(prv.primary_data[1], pd)
                    /\ TolRestricts(prv.tol_data[1], td)

(* A level-2 dataset was returned that excludes a state level 1 allowed. *)
C1_Witness ==
    /\ Returned
    /\ selected = Some(2)
    /\ ~tol_data[1][1]["N0"][1]
    /\ get_data_branches(1).tol_data[1][1]["N0"][1]

\* C2: get_data(level) returns the pair of that level, selected by its own
\* level parameter and by nothing else: after a call with a level in
\* {0,1,2,3} the call has returned, and the returned pair is the pair of
\* the branch for that level (the same at every call).
C2_SelectedByParameter ==
    (level # None /\ level[1] \in ValidLevels) =>
        /\ raised = ""
        /\ primary_data = get_data_branches(level[1]).primary_data
        /\ tol_data = get_data_branches(level[1]).tol_data

\* C3: get_data(level) fails with the invalid-level error and returns
\* nothing for every level outside {0,1,2,3}, and does not fail for any
\* level inside {0,1,2,3}.
C3_InvalidLevel ==
    level # None =>
        /\ level[1] \notin ValidLevels =>
              /\ raised = "Exception: invalid data level"
              /\ primary_data = None
              /\ tol_data = None
        /\ level[1] \in ValidLevels => raised = ""

\* C4: returned evidence is never empty: every node allows at least one
\* primary state, and every class allows at least one tolerance state at
\* every node.
C4_EvidenceNonEmpty ==
    Returned =>
        /\ \A n \in NodeNames : \E i \in PrimaryStates : primary_data[1][n][i]
        /\ \A c \in TolClasses : \A n \in NodeNames :
               \E b \in BlinkStates : tol_data[1][c][n][b]

(* The most restrictive dataset was returned. *)
C4_Witness ==
    /\ Returned
    /\ selected = Some(3)
    /\ \A c \in TolClasses : ~tol_data[1][c]["N3"][0]

(* Graph vocabulary *)

InDegree(G, n) == Cardinality({e \in G.edges : e[2] = n})

(* Pairs <<a, b>> with a path of at least one edge from a to b. *)
RECURSIVE PathsWithin(_, _)
PathsWithin(R, k) ==
    IF k = 0 THEN R
    ELSE PathsWithin(R \cup {<<pq[1][1], pq[2][2]>> :
                                 pq \in {x \in R \X R : x[1][2] = x[2][1]}},
                     k - 1)

Paths(G) == PathsWithin(G.edges, Cardinality(G.nodes))

IsOutTree(G, root) ==
    /\ {n \in G.nodes : InDegree(G, n) = 0} = {root}
    /\ \A n \in G.nodes \ {root} : InDegree(G, n) = 1
    /\ \A n \in G.nodes \ {root} : <<root, n>> \in Paths(G)
    /\ \A n \in G.nodes : <<n, n>> \notin Paths(G)

\* C5: in both model modules the graph returned by get_T_and_root is a
\* rooted out-tree: exactly one node has in-degree zero, it is the returned
\* root 'N1', every other node has exactly one incoming edge and is
\* reachable from the root, and there is no cycle.
C5_RootedOutTree ==
    \A m \in Modules :
        T_and_root[m] # None =>
            /\ T_and_root[m][1].root = "N1"
            /\ IsOutTree(T_and_root[m][1].T, T_and_root[m][1].root)

(* Both modules have returned their tree. *)
C5_Witness ==
    /\ \A m \in Modules : T_and_root[m] # None
    /\ \A m \in Modules : Cardinality(T_and_root[m][1].T.edges) = 5

\* C6: in both model modules the keys of get_edge_to_blen are exactly the
\* directed edges of the tree of the same module, every branch length is
\* non-negative, and model B has zero-length edges.
C6_BranchLengths ==
    \A m \in Modules :
        edge_to_blen[m] # None =>
            /\ T_and_root[m] # None =>
                   DOMAIN edge_to_blen[m][1] = T_and_root[m][1].T.edges
            /\ \A e \in DOMAIN edge_to_blen[m][1] :
                   /\ edge_to_blen[m][1][e].num >= 0
                   /\ edge_to_blen[m][1][e].den > 0
            /\ m = "npmodelb" =>
                   \E e \in DOMAIN edge_to_blen[m][1] :
                       edge_to_blen[m][1][e].num = 0

(* Both modules have returned tree and branch lengths, and model B's *)
(* doubled branch is one unit long.                                   *)
C6_Witness ==
    /\ \A m \in Modules : T_and_root[m] # None /\ edge_to_blen[m] # None
    /\ edge_to_blen["npmodelb"][1][<<"N2", "N3">>] = Float(1, 1)

\* C7: the node keys of returned primary_data and of every tol_data[class]
\* are exactly the nodes of the tree, the class keys of tol_data are
\* exactly 0..k-1 where k = 3 is the number of classes in the image of
\* get_primary_to_tol, and every class of 0..k-1 has a primary state.
C7_KeysMatchModel ==
    \A m \in Modules :
        (Returned /\ T_and_root[m] # None /\ primary_to_tol[m] # None) =>
            LET nodes == T_and_root[m][1].T.nodes
                p2t   == primary_to_tol[m][1]
                image == {p2t[i] : i \in DOMAIN p2t}
                k     == Cardinality(image)
            IN  /\ DOMAIN primary_data[1] = nodes
                /\ DOMAIN tol_data[1] = 0..(k - 1)
                /\ \A c \in DOMAIN tol_data[1] : DOMAIN tol_data[1][c] = nodes
                /\ k = 3
                /\ DOMAIN p2t = PrimaryStates
                /\ \A c \in 0..(k - 1) : \E i \in PrimaryStates : p2t[i] = c

(* Data, tree and tolerance map are all there to compare. *)
C7_Witness ==
    /\ Returned
    /\ selected = Some(1)
    /\ T_and_root["npmodel"] # None
    /\ primary_to_tol["npmodel"] # None

IsFloat(x) == x.den > 0

\* C8: in both model modules get_Q_primary is 6x6 with zero diagonal and
\* non-negative off-diagonal entries; model A's matrix is symmetric and
\* model B's is not.
C8_RateMatrixShape ==
    /\ \A m \in Modules :
           Q_primary[m] # None =>
               LET Q == Q_primary[m][1]
               IN  /\ DOMAIN Q = PrimaryStates
                   /\ \A i \in PrimaryStates : DOMAIN Q[i] = PrimaryStates
                   /\ \A i \in PrimaryStates : Q[i][i] = float(0)
                   /\ \A i, j \in PrimaryStates :
                          IsFloat(Q[i][j]) /\ Q[i][j].num >= 0
    /\ Q_primary["npmodel"] # None =>
           \A i, j \in PrimaryStates :
               Q_primary["npmodel"][1][i][j] = Q_primary["npmodel"][1][j][i]
    /\ Q_primary["npmodelb"] # None =>
           \E i, j \in PrimaryStates :
               Q_primary["npmodelb"][1][i][j] # Q_primary["npmodelb"][1][j][i]

(* Both matrices have been returned. *)
C8_Witness ==
    /\ \A m \in Modules : Q_primary[m] # None
    /\ Q_primary["npmodelb"][1][0][1] = Float(2, 1)
    /\ Q_primary["npmodel"][1][0][1] = Float(1, 1)

\* C9: model B's matrix differs from model A's exactly as its docstring
\* says: every rate into state 1 is twice model A's, every rate out of
\* state 1 is half model A's, the rates between 4 and 5 are zero, and every
\* other entry equals model A's.
C9_ModelBAsDocumented ==
    (Q_primary["npmodel"] # None /\ Q_primary["npmodelb"] # None) =>
        LET A == Q_primary["npmodel"][1]
            B == Q_primary["npmodelb"][1]
        IN  \A i, j \in PrimaryStates :
                B[i][j] =
                    IF i # 1 /\ j = 1 THEN FloatMul(Float(2, 1), A[i][j])
                    ELSE IF i = 1 /\ j # 1 THEN FloatMul(Float(1, 2), A[i][j])
                    ELSE IF {i, j} = {4, 5} THEN float(0)
                    ELSE A[i][j]

\* C10: at every level 1..3 every leaf (N0, N3, N4, N5) allows exactly one
\* primary state s, and the tolerance class of s cannot be untolerated
\* there: tol_data[get_primary_to_tol()[s]][leaf] = [False, True]; at the
\* internal nodes N1 and N2 everything stays allowed at every level.
C10_LeafObservations ==
    (Returned /\ selected # None) =>
        LET pd == primary_data[1]
            td == tol_data[1]
        IN  /\ \A n \in NodeNames \ LeafNames :
                   /\ \A i \in PrimaryStates : pd[n][i]
                   /\ \A c \in TolClasses : \A b \in BlinkStates : td[c][n][b]
            /\ selected[1] \in 1..3 =>
                   \A n \in LeafNames :
                       /\ Cardinality({i \in PrimaryStates : pd[n][i]}) = 1
                       /\ \A m \in Modules :
                              primary_to_tol[m] # None =>
                                  \A i \in PrimaryStates :
                                      pd[n][i] =>
                                          td[primary_to_tol[m][1][i]][n]
                                              = np_array_bool(<<0, 1>>)

(* Alignment-only data returned and the tolerance map known: leaf N3 *)
(* shows state 4, of class 2.                                        *)
C10_Witness ==
    /\ Returned
    /\ selected = Some(1)
    /\ primary_to_tol["npmodel"] # None
    /\ primary_data[1]["N3"][4]
    /\ primary_to_tol["npmodel"][1][4] = 2

====
